---- MODULE Spec2Model ----
(***************************************************************************)
(* Device self-registration and command authentication of the             *)
(* inpatient-display Pi client.                                           *)
(*                                                                         *)
(*   - the Command Agent (reboot-service.js).  The repository holds two   *)
(*     versions of it: variant "A" reads the credential from the API key  *)
(*     file on every request, variant "B" takes it from the environment   *)
(*     once at start-up and also serves /shutdown and /api-key;           *)
(*   - the Registration Client, with its two entry points: the one-time   *)
(*     register-pi.js and the cron-driven register-pi-periodic.js.        *)
(*                                                                         *)
(* JavaScript strings are sequences of one-character strings, so that     *)
(* trim(), split() and the regular expression are computed, not assumed.  *)
(***************************************************************************)
EXTENDS Naturals, Sequences, FiniteSets

(***************************************************************************)
(* Bounds of the model.                                                    *)
(***************************************************************************)
\* number of requests the agent receives in one run
MaxReq == 2
\* number of invocations of the Registration Client
MaxRuns == 2
\* number of runs of a setup script
MaxSetups == 2
\* number of runs of the periodic client cron starts
MaxCron == 3

\* minutes between two runs of the periodic client: the */5 of its crontab
\* line
CronInterval == 5

(***************************************************************************)
(* JavaScript values.                                                      *)
(***************************************************************************)
\* the value of a header, query parameter or environment variable that is
\* not there; no string equals it
Undefined == <<"undefined">>
\* the null getApiKey returns
Null == <<"null">>
\* a file that does not exist
Absent == <<"ENOENT">>

Whitespace == {" ", "\n"}
HexChars == {"a", "b"}

\* JavaScript truthiness of a string, undefined or null
Truthy(v) == v # Undefined /\ v # Null /\ v # <<>>

RECURSIVE TrimLeft(_)
TrimLeft(s) ==
  IF s # <<>> /\ Head(s) \in Whitespace THEN TrimLeft(Tail(s)) ELSE s

RECURSIVE TrimRight(_)
TrimRight(s) ==
  IF s # <<>> /\ s[Len(s)] \in Whitespace
    THEN TrimRight(SubSeq(s, 1, Len(s) - 1))
    ELSE s

\* String.prototype.trim
Trim(s) == TrimRight(TrimLeft(s))

\* the longest prefix of s made of the characters [a-f0-9]
RECURSIVE HexPrefix(_)
HexPrefix(s) ==
  IF s # <<>> /\ Head(s) \in HexChars THEN <<Head(s)>> \o HexPrefix(Tail(s)) ELSE <<>>

\* the text REBOOT_API_KEY= of the service file, kept as one symbol
KeyAssignment == "REBOOT_API_KEY="

\* serviceContent.match(/REBOOT_API_KEY=([a-f0-9]+)/): the group of the first
\* match, Null when nothing matches
RECURSIVE ServiceKeyMatch(_)
ServiceKeyMatch(s) ==
  IF s = <<>> THEN Null
  ELSE IF Head(s) = KeyAssignment /\ HexPrefix(Tail(s)) # <<>>
    THEN HexPrefix(Tail(s))
  ELSE ServiceKeyMatch(Tail(s))

\* s.split(' ')[0]: what precedes the first space
RECURSIVE SplitFirst(_)
SplitFirst(s) ==
  IF s = <<>> \/ Head(s) = " " THEN <<>> ELSE <<Head(s)>> \o SplitFirst(Tail(s))

(***************************************************************************)
(* Command Agent, variant A: the credential is read from the API key file  *)
(* on every request.                                                       *)
(***************************************************************************)
\* getApiKey without trim()
AgentGetApiKey_NoTrim(file) == IF file # Absent THEN file ELSE Null

\* getApiKey of the reboot service: the trimmed file, or null
AgentGetApiKey(file) == IF file # Absent THEN Trim(file) ELSE Null

\* req.headers['x-api-key'] || req.query.apiKey
ProvidedKey(header, query) == IF Truthy(header) THEN header ELSE query

\* authenticateApiKey without the !providedKey test: a request that carries
\* nothing is let through
AuthenticateApiKey_NoMissingTest(header, query, file) ==
  LET providedKey == IF Truthy(header) THEN header ELSE query
      expectedKey == IF file # Absent THEN Trim(file) ELSE Null
  IN  IF ~Truthy(expectedKey) THEN 500
      ELSE IF Truthy(providedKey) /\ providedKey # expectedKey THEN 401
      ELSE 0

\* authenticateApiKey: the status it answers, 0 when it calls next()
AuthenticateApiKey(header, query, file) ==
  LET providedKey == ProvidedKey(header, query)
      expectedKey == AgentGetApiKey(file)
  IN  IF ~Truthy(expectedKey) THEN 500
      ELSE IF ~Truthy(providedKey) \/ providedKey # expectedKey THEN 401
      ELSE 0

\* a response: status, what the body says, the apiKey and apiKeyConfigured
\* fields of the body when it has them
Response(status, text, apiKey, configured) ==
  [status |-> status, text |-> text, apiKey |-> apiKey,
   apiKeyConfigured |-> configured]

\* variant A with a 401 of its own for the request that carries nothing
RouteA_MissingKeyMessage(ep, header, query, file) ==
  IF ep = "GET /health"
    THEN [resp |-> Response(200, "healthy", Undefined,
                     IF Truthy(AgentGetApiKey(file)) THEN "true" ELSE "false"),
          op |-> "none"]
  ELSE IF ep = "POST /reboot"
    THEN LET auth == AuthenticateApiKey(header, query, file)
         IN  IF auth = 500
               THEN [resp |-> Response(500, "API key not configured", Undefined, "none"),
                     op |-> "none"]
             ELSE IF auth = 401
               THEN [resp |-> Response(401,
                                IF Truthy(ProvidedKey(header, query))
                                  THEN "Invalid API key" ELSE "API key required",
                                Undefined, "none"),
                     op |-> "none"]
             ELSE [resp |-> Response(200, "rebooting", Undefined, "none"),
                   op |-> "reboot"]
  ELSE [resp |-> Response(404, "Not Found", Undefined, "none"), op |-> "none"]

\* the routes of variant A; op is the host action the handler schedules
RouteA(ep, header, query, file) ==
  IF ep = "GET /health"
    THEN [resp |-> Response(200, "healthy", Undefined,
                     IF Truthy(AgentGetApiKey(file)) THEN "true" ELSE "false"),
          op |-> "none"]
  ELSE IF ep = "POST /reboot"
    THEN LET auth == AuthenticateApiKey(header, query, file)
         IN  IF auth = 500
               THEN [resp |-> Response(500, "API key not configured", Undefined, "none"),
                     op |-> "none"]
             ELSE IF auth = 401
               THEN [resp |-> Response(401, "Invalid API key", Undefined, "none"),
                     op |-> "none"]
             ELSE [resp |-> Response(200, "rebooting", Undefined, "none"),
                   op |-> "reboot"]
  ELSE [resp |-> Response(404, "Not Found", Undefined, "none"), op |-> "none"]

(***************************************************************************)
(* Command Agent, variant B: the credential is the environment variable    *)
(* REBOOT_API_KEY read at start-up, with a literal fallback.               *)
(***************************************************************************)
\* the literal 'your-reboot-api-key'
DefaultKey == <<"y">>

\* API_KEY = process.env.REBOOT_API_KEY || 'your-reboot-api-key'
API_KEY(env) == IF Truthy(env) THEN env ELSE DefaultKey

\* authenticate: the status it answers, 0 when it calls next()
Authenticate(header, env) == IF header # API_KEY(env) THEN 401 ELSE 0

\* the routes of variant B
RouteB(ep, header, query, env) ==
  IF ep = "GET /health"
    THEN [resp |-> Response(200, "ok", Undefined, "none"), op |-> "none"]
  ELSE IF ep = "GET /api-key"
    THEN [resp |-> Response(200, "apiKey",
                     IF Truthy(env) THEN env ELSE API_KEY(env), "none"),
          op |-> "none"]
  ELSE IF ep \in {"POST /reboot", "POST /shutdown"}
    THEN IF Authenticate(header, env) = 401
           THEN [resp |-> Response(401, "Unauthorized", Undefined, "none"),
                 op |-> "none"]
           ELSE [resp |-> Response(200, "command received", Undefined, "none"),
                 op |-> IF ep = "POST /reboot" THEN "reboot" ELSE "shutdown"]
  ELSE [resp |-> Response(404, "Not Found", Undefined, "none"), op |-> "none"]

(***************************************************************************)
(* Registration Client: register-pi.js (entry "once") and                  *)
(* register-pi-periodic.js (entry "periodic").                             *)
(***************************************************************************)
\* the literal 'unknown' of getSystemInfo
Unknown == <<"unknown">>

\* getApiKey of register-pi.js: the command line argument, then the API key
\* file, then the service file; readFileSync of a missing service file
\* throws and the catch returns null
OnceGetApiKey(argv2, file, service) ==
  IF Truthy(argv2) THEN argv2
  ELSE IF file # Absent THEN Trim(file)
  ELSE IF service = Absent THEN Null
  ELSE ServiceKeyMatch(service)

\* getApiKey of register-pi-periodic.js: the service file only
PeriodicGetApiKey(service) ==
  IF service = Absent THEN Null ELSE ServiceKeyMatch(service)

ClientGetApiKey(entry, argv2, file, service) ==
  IF entry = "once" THEN OnceGetApiKey(argv2, file, service)
                    ELSE PeriodicGetApiKey(service)

\* getSystemInfo (the same in both files): hostnameError is the error of
\* exec('hostname'), ipOutput the stdout of exec('hostname -I'), empty when
\* that command fails
GetSystemInfo(hostnameError, hostnameOutput, ipOutput) ==
  IF hostnameError THEN [hostname |-> Unknown, ip |-> Unknown]
  ELSE [hostname |-> Trim(hostnameOutput),
        ip |-> IF ipOutput # <<>> THEN SplitFirst(Trim(ipOutput)) ELSE Unknown]

\* the check of register-pi-periodic.js between getSystemInfo and fetch;
\* register-pi.js has none
AddressRejected(entry, ip) == entry = "periodic" /\ ip = Unknown

\* response.ok
ResponseOk(http) == http >= 200 /\ http <= 299

\* What the rest of registerWithServer does with the registry's answer:
\* net is "error" when fetch rejects; body is "malformed" when
\* response.json() rejects, else the status field of the parsed body.
\* thrown: the try block threw; success: a SUCCESS line was logged.
AnswerOutcome(entry, net, http, body) ==
  LET thrown == \/ net = "error"
                \/ entry = "periodic" /\ ~ResponseOk(http)
                \/ body = "malformed"
  IN  [thrown |-> thrown,
       success |-> ~thrown /\ body \in {"new", "updated"}]

\* the exit status of the process: main of register-pi-periodic.js calls
\* process.exit(1) when registerWithServer returned false; register-pi.js
\* never sets one
ExitStatus(entry, returnedTrue) ==
  IF entry = "periodic" /\ ~returnedTrue THEN 1 ELSE 0

(***************************************************************************)
(* State.                                                                  *)
(***************************************************************************)
VARIABLES
  variant,     \* which version of reboot-service.js runs on the device
  keyFile,     \* content of /etc/inpatient-display/api-key, or Absent
  serviceFile, \* content of /etc/systemd/system/inpatient-reboot.service,
               \* or Absent
  envKey,      \* REBOOT_API_KEY as variant B finds it in its environment at
               \* start-up, or Undefined (variant A never reads it)
  unitEnv,     \* REBOOT_API_KEY as the service is configured now: what
               \* process.env would hold if the agent were started now
  running,     \* the agent process is alive
  inflight,    \* number of requests the listener has received and whose
               \* handler has not run yet
  reqs,        \* the requests received so far, each with its response and
               \* the state of the timer its handler set
  runs,        \* number of invocations of the Registration Client so far
  cl,          \* the current (or last) invocation of the Registration Client
  script,      \* the setup script of the current (or last) setup run
  status,      \* how far that run has got: "idle", "running", "done" or why
               \* it aborted
  step,        \* index in main of the step the run is at
  setups,      \* number of setup runs started so far
  keyLog,      \* what register_pi logged about the API key in that run
  attempt,     \* the apiKey of the report register-pi.js POSTed in that run,
               \* Null when it POSTed none
  crontab,     \* root's crontab: the sequence of its lines
  address,     \* the address the device has now
  started,     \* number of runs of the periodic client cron has started
  flights,     \* the reports POSTed and not yet received by the registry
  registry     \* the registry's record for the device's credential

vars ==
  <<variant, keyFile, serviceFile, envKey, unitEnv, running, inflight, reqs,
    runs, cl, script, status, step, setups, keyLog, attempt, crontab,
    address, started, flights, registry>>
config == <<variant, keyFile, serviceFile, envKey, unitEnv>>
agentVars == <<running, inflight, reqs>>
clientVars == <<runs, cl>>
setupVars == <<script, status, step, setups, keyLog, attempt, crontab>>
cronVars == <<address, started, flights, registry>>

\* what the API key file can hold: a key and its newline, or a blank line
KeyFileContents == {<<"a", "\n">>, <<"b", "\n">>, <<"\n">>}
\* what the service file can hold: no assignment, the assignment of a key,
\* an assignment of something that is no hex string
ServiceFileContents ==
  {<<"\n">>, <<KeyAssignment, "a", "\n">>, <<KeyAssignment, "y", "\n">>}
\* what the environment variable can hold
EnvValues == {Undefined, <<>>, <<"a">>, <<"b">>}
\* what a request can carry in the X-Api-Key header
HeaderValues == {Undefined, <<>>, <<"a">>, <<"b">>, DefaultKey}
\* what a request can carry in the apiKey query parameter
QueryValues == {Undefined, <<"a">>}
Endpoints == {"GET /health", "GET /api-key", "POST /reboot", "POST /shutdown"}
\* the requests the agent receives; the GET routes never look at a
\* credential, so the GET requests carry none
Requests ==
  { q \in [ep : Endpoints, header : HeaderValues, query : QueryValues] :
      q.ep \in {"GET /health", "GET /api-key"}
        => q.header = Undefined /\ q.query = Undefined }

\* process.argv[2] of register-pi.js
ArgValues == {Undefined, <<"a">>, <<"b">>}
\* stdout of hostname -I: nothing (the command failed), a blank line (no
\* address), one address, two addresses
IpOutputs == {<<>>, <<"\n">>, <<"1", " ", "\n">>, <<"1", " ", "2", " ", "\n">>}
\* stdout of hostname
HostnameOutput == <<"h", "\n">>
\* the HTTP statuses the registry answers with
HttpStatuses == {200, 201, 401, 500}
\* the body of the answer: not JSON, or JSON whose status field is "new",
\* "updated" or anything else (missing included)
Bodies == {"malformed", "new", "updated", "other"}

\* the credential configured on the device for the running agent, Null when
\* none is: the key file's content for variant A, the environment variable
\* for variant B
Configured ==
  IF variant = "A"
    THEN (IF keyFile # Absent /\ Trim(keyFile) # <<>> THEN Trim(keyFile) ELSE Null)
    ELSE (IF envKey # Undefined /\ envKey # <<>> THEN envKey ELSE Null)

\* the credential in the device's credential store: the API key file, else
\* the key of the legacy service file, else none
StoredCredential(file, service) ==
  IF file # Absent /\ Trim(file) # <<>> THEN Trim(file)
  ELSE IF service # Absent THEN ServiceKeyMatch(service)
  ELSE Null

\* the registry has no record for the credential yet
NoRecord == [n |-> 0, ip |-> Unknown]

\* a client that has not been started; agentKey and stored remember the
\* credential configured for the agent and the credential in the store at
\* the moment the client read its own; waited counts the minutes the POST
\* has been in flight
Idle ==
  [pc |-> "idle", entry |-> "none", apiKey |-> Null, hostname |-> Unknown,
   ip |-> Unknown, posts |-> 0, net |-> "none", http |-> 0, body |-> "none",
   logs |-> {}, exit |-> 0, agentKey |-> Null, stored |-> Null, waited |-> 0]

Init ==
  /\ variant \in {"A", "B"}
  /\ keyFile \in KeyFileContents \cup {Absent}
  /\ serviceFile \in ServiceFileContents \cup {Absent}
  /\ envKey \in (IF variant = "A" THEN {Undefined} ELSE EnvValues)
  /\ unitEnv = envKey
  /\ running = TRUE
  /\ inflight = 0
  /\ reqs = <<>>
  /\ runs = 0
  /\ cl = Idle
  /\ script = "none"
  /\ status = "idle"
  /\ step = 0
  /\ setups = 0
  /\ keyLog = "none"
  /\ attempt = Null
  /\ crontab = <<>>
  /\ address = "1"
  /\ started = 0
  /\ flights = {}
  /\ registry = NoRecord

(***************************************************************************)
(* The Command Agent's steps.                                              *)
(***************************************************************************)
\* the host command is run inside the handler instead of from the timer
SetTimeout_Synchronous(op) == IF op = "none" THEN "none" ELSE "invoked"

\* one timer for the whole agent: no second timer while one is pending
SetTimeout_SingleTimer(op) ==
  IF op = "none" \/ \E i \in 1..Len(reqs) : reqs[i].timer = "pending"
    THEN "none" ELSE "pending"

\* setTimeout(() => exec(...), delay) after res.json: the state of the timer
\* the handler leaves behind
SetTimeout(op) == IF op = "none" THEN "none" ELSE "pending"

\* the routes each variant registers
Routes(v) ==
  IF v = "A" THEN {"GET /health", "POST /reboot"}
             ELSE {"GET /health", "GET /api-key", "POST /reboot", "POST /shutdown"}

Route(ep, header, query) ==
  IF variant = "A" THEN RouteA(ep, header, query, keyFile)
                   ELSE RouteB(ep, header, query, envKey)

\* The listener receives a request; express.json() reads it before the
\* route's handler is called.
Receive ==
  /\ running
  /\ Len(reqs) + inflight < MaxReq
  /\ inflight' = inflight + 1
  /\ UNCHANGED <<setupVars, cronVars, config, running, reqs, clientVars>>

\* the handler is not called while a timer is pending
HandleRequest_WaitsForTimer ==
  /\ running
  /\ inflight > 0
  /\ \A i \in 1..Len(reqs) : reqs[i].timer # "pending"
  /\ inflight' = inflight - 1
  /\ \E q \in Requests :
       LET r == Route(q.ep, q.header, q.query)
       IN  reqs' = Append(reqs,
                     [ep |-> q.ep, header |-> q.header, query |-> q.query,
                      configured |-> Configured,
                      resp |-> r.resp, op |-> r.op,
                      timer |-> SetTimeout(r.op)])
  /\ UNCHANGED <<setupVars, cronVars, config, running, clientVars>>

\* The agent handles one received request: the handler answers and, when the
\* request was authorized, sets the timer of the host action.  What the
\* request holds is drawn here, where the agent first looks at it.
HandleRequest ==
  /\ running
  /\ inflight > 0
  /\ inflight' = inflight - 1
  /\ \E q \in Requests :
       LET r == Route(q.ep, q.header, q.query)
       IN  reqs' = Append(reqs,
                     [ep |-> q.ep, header |-> q.header, query |-> q.query,
                      configured |-> Configured,
                      resp |-> r.resp, op |-> r.op,
                      timer |-> SetTimeout(r.op)])
  /\ UNCHANGED <<setupVars, cronVars, config, running, clientVars>>

\* the error of exec is thrown instead of logged: the process dies
TimerFire_ThrowsOnFailure ==
  /\ running
  /\ \E i \in 1..Len(reqs), ok \in BOOLEAN :
       /\ reqs[i].timer = "pending"
       /\ reqs' = [reqs EXCEPT ![i].timer = IF ok THEN "invoked" ELSE "failed"]
       /\ running' = ok
  /\ UNCHANGED <<setupVars, cronVars, config, inflight, clientVars>>

\* The timer of request i expires: exec runs the host command, which starts
\* or fails to start.
TimerFire ==
  /\ running
  /\ \E i \in 1..Len(reqs), ok \in BOOLEAN :
       /\ reqs[i].timer = "pending"
       /\ reqs' = [reqs EXCEPT ![i].timer = IF ok THEN "invoked" ELSE "failed"]
  /\ UNCHANGED <<setupVars, cronVars, config, running, inflight, clientVars>>

\* SIGTERM or SIGINT: process.exit(0).  The pending timers die with the
\* process and the requests whose handler has not run are never answered.
Terminate ==
  /\ running
  /\ running' = FALSE
  /\ UNCHANGED <<setupVars, cronVars, config, inflight, reqs, clientVars>>

\* The operator provisions, rotates or removes the API key file.
WriteKeyFile ==
  /\ \E c \in KeyFileContents \cup {Absent} :
       /\ c # keyFile
       /\ keyFile' = c
  /\ UNCHANGED <<setupVars, cronVars, variant, serviceFile, envKey, unitEnv, agentVars, clientVars>>

\* The operator changes REBOOT_API_KEY in the configuration of the service
\* of variant B, without restarting the agent.
ReconfigureEnv ==
  /\ variant = "B"
  /\ \E e \in EnvValues :
       /\ e # unitEnv
       /\ unitEnv' = e
  /\ UNCHANGED <<setupVars, cronVars, variant, keyFile, serviceFile, envKey, agentVars, clientVars>>

(***************************************************************************)
(* The Registration Client's steps.                                        *)
(***************************************************************************)
\* An invocation ends: what it logged and its exit status.  main of the
\* periodic client logs 'Periodic registration completed successfully' when
\* registerWithServer returned true.
Finished(c, logs, returnedTrue) ==
  [c EXCEPT !.pc = "done",
            !.logs = c.logs \cup logs \cup
                       (IF c.entry = "periodic" /\ returnedTrue
                          THEN {"completed successfully"} ELSE {}),
            !.exit = ExitStatus(c.entry, returnedTrue)]

\* The client is started (by the setup script or by hand: "once"; by cron:
\* "periodic") and reads the credential.
StartClient ==
  /\ cl.pc \in {"idle", "done"}
  /\ runs < MaxRuns
  /\ runs' = runs + 1
  /\ \E entry \in {"once", "periodic"}, argv2 \in ArgValues :
       LET apiKey == ClientGetApiKey(entry, argv2, keyFile, serviceFile)
           c == [Idle EXCEPT !.entry = entry, !.apiKey = apiKey,
                             !.agentKey = Configured,
                             !.stored = StoredCredential(keyFile, serviceFile)]
       IN  cl' = IF ~Truthy(apiKey)
                   THEN Finished(c, {"error"}, FALSE)
                   ELSE [c EXCEPT !.pc = "sysinfo"]
  /\ UNCHANGED <<setupVars, cronVars, config, agentVars>>

\* getSystemInfo resolves; the periodic client gives up on 'unknown', else
\* the report is POSTed.
SystemInfo ==
  /\ cl.pc = "sysinfo"
  /\ \E hostnameError \in BOOLEAN, ipOutput \in IpOutputs :
       LET info == GetSystemInfo(hostnameError, HostnameOutput, ipOutput)
           c == [cl EXCEPT !.hostname = info.hostname, !.ip = info.ip]
       IN  cl' = IF AddressRejected(cl.entry, info.ip)
                   THEN Finished(c, {"error"}, FALSE)
                   ELSE [c EXCEPT !.pc = "posted", !.posts = c.posts + 1]
  /\ UNCHANGED <<setupVars, cronVars, config, agentVars, runs>>

\* The registry stays silent for another minute.  fetch is called without
\* a signal or a timeout, so nothing in the client ends the wait.
RegistrySilent ==
  /\ cl.pc = "posted"
  /\ cl.waited < CronInterval
  /\ cl' = [cl EXCEPT !.waited = cl.waited + 1]
  /\ UNCHANGED <<setupVars, cronVars, config, agentVars, runs>>

\* the catch block POSTs again instead of returning false
RegistryAnswer_RetriesOnFailure ==
  /\ cl.pc = "posted"
  /\ \E net \in {"error", "response"}, http \in HttpStatuses, body \in Bodies :
       /\ net = "error" => http = 200 /\ body = "malformed"
       /\ LET o == AnswerOutcome(cl.entry, net, http, body)
              c == [cl EXCEPT !.net = net,
                              !.http = IF net = "error" THEN 0 ELSE http,
                              !.body = IF net = "error" THEN "none" ELSE body]
          IN  cl' = IF o.thrown /\ cl.posts < 2
                      THEN [cl EXCEPT !.posts = cl.posts + 1]
                      ELSE Finished(c,
                             (IF o.thrown THEN {"error"} ELSE {"result"})
                               \cup (IF o.success THEN {"success"} ELSE {}),
                             ~o.thrown)
  /\ UNCHANGED <<setupVars, cronVars, config, agentVars, runs>>

\* fetch settles: it rejects (net = "error") or the registry's answer is in.
RegistryAnswer ==
  /\ cl.pc = "posted"
  /\ \E net \in {"error", "response"}, http \in HttpStatuses, body \in Bodies :
       /\ net = "error" => http = 200 /\ body = "malformed"
       /\ LET o == AnswerOutcome(cl.entry, net, http, body)
              c == [cl EXCEPT !.net = net,
                              !.http = IF net = "error" THEN 0 ELSE http,
                              !.body = IF net = "error" THEN "none" ELSE body]
          IN  cl' = Finished(c,
                      (IF o.thrown THEN {"error"} ELSE {"result"})
                        \cup (IF o.success THEN {"success"} ELSE {}),
                      ~o.thrown)
  /\ UNCHANGED <<setupVars, cronVars, config, agentVars, runs>>

(***************************************************************************)
(* The setup scripts: the older pi-setup script (part_000) and             *)
(* pi-setup-complete.sh.  Both run main under set -e.                      *)
(***************************************************************************)
Scripts == {"part_000", "pi-setup-complete.sh"}

\* the steps main calls, in order
MainSteps(s) ==
  IF s = "part_000"
    THEN <<"check_root", "update_system", "install_packages",
           "create_directories", "clone_repository", "install_dependencies",
           "configure_autostart", "configure_display", "setup_reboot_service",
           "register_pi", "setup_periodic_registration", "configure_ssh",
           "configure_firewall", "create_status_script",
           "create_update_script", "final_setup">>
    ELSE <<"check_root", "update_system", "install_packages",
           "create_directories", "clone_repository", "install_dependencies",
           "configure_autostart", "configure_display", "configure_autologin",
           "setup_reboot_service", "register_pi",
           "setup_periodic_registration", "configure_ssh",
           "configure_firewall", "test_connectivity", "create_status_script",
           "create_update_script", "final_setup">>

\* the functions the script defines; pi-setup-complete.sh has
\* install_dependencies commented out
Defined(s) ==
  IF s = "part_000"
    THEN {"check_root", "update_system", "install_packages",
          "create_directories", "clone_repository", "install_dependencies",
          "configure_autostart", "configure_display", "setup_reboot_service",
          "register_pi", "setup_periodic_registration", "configure_ssh",
          "configure_firewall", "create_status_script",
          "create_update_script", "final_setup"}
    ELSE {"check_root", "update_system", "install_packages",
          "create_directories", "clone_repository", "configure_autostart",
          "configure_display", "setup_reboot_service", "register_pi",
          "setup_periodic_registration", "configure_ssh",
          "configure_firewall", "test_connectivity", "create_status_script",
          "create_update_script", "final_setup", "configure_autologin"}

\* the values AUTO_REBOOT_TIME is set to: a time, or empty to disable
AutoRebootTimes == {"07:45", ""}

\* the crontab line of the periodic registration job
PeriodicLine ==
  "*/5 * * * * /usr/bin/node /usr/local/bin/register-pi-periodic.js >> /tmp/pi-registration.log 2>&1"
\* the crontab line of the daily reboot job
RebootLine == "$MINUTE $HOUR * * * /usr/local/bin/inpatient-reboot"

\* grep -v "inpatient-reboot": the lines that do not hold the pattern
GrepVReboot(tab) == SelectSeq(tab, LAMBDA line : line # RebootLine)

\* what openssl rand -hex prints
RandHex == {<<"a">>, <<"b">>}

\* $(cat file): the content without its trailing newlines
RECURSIVE CommandSubstitution(_)
CommandSubstitution(s) ==
  IF s # <<>> /\ s[Len(s)] = "\n"
    THEN CommandSubstitution(SubSeq(s, 1, Len(s) - 1))
    ELSE s

\* the step main is about to call
CurrentStep == MainSteps(script)[step]

\* the step returned: main goes on to the next one, or has completed
Advance ==
  IF step = Len(MainSteps(script))
    THEN status' = "done" /\ step' = step
    ELSE status' = "running" /\ step' = step + 1

\* the script is started: main "$@"
StartSetup ==
  /\ status # "running"
  /\ setups < MaxSetups
  /\ setups' = setups + 1
  /\ script' \in Scripts
  /\ status' = "running"
  /\ step' = 1
  /\ keyLog' = "none"
  /\ attempt' = Null
  /\ UNCHANGED <<config, agentVars, clientVars, crontab, cronVars>>

\* main calls a function the script does not define: bash answers "command
\* not found" and set -e ends the script
CommandNotFound ==
  /\ status = "running"
  /\ CurrentStep \notin Defined(script)
  /\ status' = "aborted: command not found"
  /\ UNCHANGED <<config, agentVars, clientVars, script, step, setups, keyLog,
                 attempt, crontab, cronVars>>

\* a command of the step fails (check_root: not root) and set -e, or error,
\* ends the script
StepFails ==
  /\ status = "running"
  /\ CurrentStep \in Defined(script)
  /\ status' = "aborted: step failed"
  /\ UNCHANGED <<config, agentVars, clientVars, script, step, setups, keyLog,
                 attempt, crontab, cronVars>>

\* a step that touches neither the API key nor the crontab
OtherStep ==
  /\ status = "running"
  /\ CurrentStep \in Defined(script)
  /\ CurrentStep \notin
       {"setup_reboot_service", "register_pi", "setup_periodic_registration"}
  /\ Advance
  /\ UNCHANGED <<config, agentVars, clientVars, script, setups, keyLog,
                 attempt, crontab, cronVars>>

\* setup_reboot_service: part_000 installs the systemd service;
\* pi-setup-complete.sh installs the reboot script and its cron job
setup_reboot_service ==
  /\ status = "running"
  /\ CurrentStep = "setup_reboot_service"
  /\ IF script = "part_000"
       THEN crontab' = crontab
       ELSE \E AUTO_REBOOT_TIME \in AutoRebootTimes :
              crontab' = IF AUTO_REBOOT_TIME # ""
                           THEN Append(GrepVReboot(crontab), RebootLine)
                           ELSE GrepVReboot(crontab)
  /\ Advance
  /\ UNCHANGED <<config, agentVars, clientVars, script, setups, keyLog,
                 attempt, cronVars>>

\* register_pi with the test of the file left out: a key is generated and
\* written on every run
register_pi_AlwaysGenerates ==
  /\ status = "running"
  /\ CurrentStep = "register_pi"
  /\ IF script = "part_000"
       THEN \E rand \in RandHex :
              LET argv2 == rand
                  file == rand \o <<"\n">>
                  apiKey == OnceGetApiKey(argv2, file, serviceFile)
              IN  /\ keyFile' = file
                  /\ keyLog' = "generated"
                  /\ attempt' = IF Truthy(apiKey) THEN apiKey ELSE Null
                  /\ IF ExitStatus("once", Truthy(apiKey)) = 0
                       THEN Advance
                       ELSE status' = "aborted: step failed" /\ step' = step
       ELSE UNCHANGED <<keyFile, keyLog, attempt>> /\ Advance
  /\ UNCHANGED <<variant, serviceFile, envKey, unitEnv, agentVars, clientVars,
                 script, setups, crontab, cronVars>>

\* register_pi.  part_000: the API key is generated when the file is not
\* there, else read from it; then node register-pi.js "$API_KEY" ... runs
\* (argv2 is the value of "$API_KEY"),
\* which POSTs its report when it has a key (it checks no address) and whose
\* exit status set -e looks at.  pi-setup-complete.sh: two log lines.
register_pi ==
  /\ status = "running"
  /\ CurrentStep = "register_pi"
  /\ IF script = "part_000"
       THEN \E rand \in RandHex :
              LET generated == keyFile = Absent
                  argv2 == IF generated THEN rand
                                        ELSE CommandSubstitution(keyFile)
                  file == IF generated THEN rand \o <<"\n">> ELSE keyFile
                  apiKey == OnceGetApiKey(argv2, file, serviceFile)
              IN  /\ keyFile' = file
                  /\ keyLog' = IF generated THEN "generated" ELSE "existing"
                  /\ attempt' = IF Truthy(apiKey) THEN apiKey ELSE Null
                  /\ IF ExitStatus("once", Truthy(apiKey)) = 0
                       THEN Advance
                       ELSE status' = "aborted: step failed" /\ step' = step
       ELSE UNCHANGED <<keyFile, keyLog, attempt>> /\ Advance
  /\ UNCHANGED <<variant, serviceFile, envKey, unitEnv, agentVars, clientVars,
                 script, setups, crontab, cronVars>>

\* setup_periodic_registration.  part_000: the line of the job is appended
\* to what crontab -l prints.  pi-setup-complete.sh: two log lines.
setup_periodic_registration ==
  /\ status = "running"
  /\ CurrentStep = "setup_periodic_registration"
  /\ crontab' = IF script = "part_000" THEN Append(crontab, PeriodicLine)
                                       ELSE crontab
  /\ Advance
  /\ UNCHANGED <<config, agentVars, clientVars, script, setups, keyLog,
                 attempt, cronVars>>

(***************************************************************************)
(* The periodic client as cron runs it, and the registry.                  *)
(***************************************************************************)
\* the addresses the network gives the device
Addresses == {"1", "2"}

\* The device's address changes (a new DHCP lease).
AddressChange ==
  /\ \E a \in Addresses :
       /\ a # address
       /\ address' = a
  /\ UNCHANGED <<config, agentVars, clientVars, setupVars, started, flights,
                 registry>>

\* cron starts register-pi-periodic.js, whether or not an earlier run has
\* ended: the run reads the key and the address and POSTs its report.  n is
\* the number of the run.
CronFire ==
  /\ started < MaxCron
  /\ started' = started + 1
  /\ \E hostnameError \in BOOLEAN :
       LET apiKey == PeriodicGetApiKey(serviceFile)
           info == GetSystemInfo(hostnameError, HostnameOutput,
                                 <<address, " ", "\n">>)
       IN  flights' =
             IF ~Truthy(apiKey) \/ AddressRejected("periodic", info.ip)
               THEN flights
               ELSE flights \cup
                      {[n |-> started', apiKey |-> apiKey, ip |-> info.ip]}
  /\ UNCHANGED <<config, agentVars, clientVars, setupVars, address, registry>>

\* The registry receives one of the reports in flight; when it accepts the
\* report it overwrites its record for the credential.
RegistryReceive ==
  /\ \E f \in flights, accepts \in BOOLEAN :
       /\ flights' = flights \ {f}
       /\ registry' = IF accepts THEN [n |-> f.n, ip |-> f.ip] ELSE registry
  /\ UNCHANGED <<config, agentVars, clientVars, setupVars, address, started>>

\* Only variant A reads the key file, so the agent's runs follow the key
\* file on a device with variant A only.
AgentWriteKeyFile == variant = "A" /\ WriteKeyFile

AgentNext ==
  \/ Receive
  \/ HandleRequest
  \/ TimerFire
  \/ Terminate
  \/ AgentWriteKeyFile
  \/ ReconfigureEnv
ClientNext ==
  \/ StartClient
  \/ SystemInfo
  \/ RegistrySilent
  \/ RegistryAnswer
  \/ WriteKeyFile

\* The agent's runs.  The agent never reads the service file, and variant B
\* never reads the key file, so they are explored from the states without
\* them.
AgentInit ==
  /\ Init
  /\ serviceFile = Absent
  /\ variant = "B" => keyFile = Absent
Spec == AgentInit /\ [][AgentNext]_vars

\* The client's invocations, on a device with either agent.
ClientSpec == Init /\ [][ClientNext]_vars

\* The runs of the setup scripts.  They look at neither the agent nor its
\* environment.
SetupNext ==
  \/ StartSetup
  \/ CommandNotFound
  \/ StepFails
  \/ OtherStep
  \/ setup_reboot_service
  \/ register_pi
  \/ setup_periodic_registration
SetupInit == Init /\ variant = "A"
SetupSpec == SetupInit /\ [][SetupNext]_vars

\* The runs cron starts and the registry.  The periodic client reads
\* neither the key file nor the agent's environment.
CronNext ==
  \/ AddressChange
  \/ CronFire
  \/ RegistryReceive
CronInit == Init /\ variant = "A" /\ keyFile = Absent
CronSpec == CronInit /\ [][CronNext]_vars

(***************************************************************************)
(* Properties of the Command Agent, checked under Spec.                    *)
(***************************************************************************)
\* a request to a privileged endpoint that the running variant serves
Privileged(r) ==
  r.ep \in {"POST /reboot", "POST /shutdown"} /\ r.ep \in Routes(variant)

\* the request carries the credential k, in the header or in the query
Carries(r, k) == r.header = k \/ r.query = k

\* the host command of the request has been run (it started or failed to)
HostActionInvoked(r) == r.timer \in {"invoked", "failed"}

\* C1: the host reboot or shutdown action has been invoked only for a
\* request to that endpoint that carried the credential configured on the
\* device at the time of the request.
C1_HostActionOnlyWithConfiguredCredential ==
  \A i \in 1..Len(reqs) :
    HostActionInvoked(reqs[i]) =>
      /\ reqs[i].configured # Null
      /\ Carries(reqs[i], reqs[i].configured)
      /\ reqs[i].ep = (IF reqs[i].op = "reboot" THEN "POST /reboot"
                                                ELSE "POST /shutdown")

\* C2: with a credential configured, a privileged request that carries it
\* neither in the header nor in the query parameter is answered 401.
C2_WrongOrMissingCredentialIs401 ==
  \A i \in 1..Len(reqs) :
    (/\ Privileged(reqs[i])
     /\ reqs[i].configured # Null
     /\ ~Carries(reqs[i], reqs[i].configured))
      => reqs[i].resp.status = 401

\* C2 witness: both a request with a wrong header and a request with neither
\* header nor query parameter have been answered 401.
C2_Witness ==
  /\ \E i \in 1..Len(reqs) :
       /\ Privileged(reqs[i]) /\ reqs[i].configured # Null
       /\ reqs[i].header = Undefined /\ reqs[i].query = Undefined
       /\ reqs[i].resp.status = 401
  /\ \E i \in 1..Len(reqs) :
       /\ Privileged(reqs[i]) /\ reqs[i].configured # Null
       /\ Truthy(reqs[i].header) /\ reqs[i].header # reqs[i].configured
       /\ reqs[i].resp.status = 401

\* C3: with no credential configured, every privileged request is answered
\* 500 and schedules no host action.
C3_NotConfiguredIs500 ==
  \A i \in 1..Len(reqs) :
    (Privileged(reqs[i]) /\ reqs[i].configured = Null)
      => reqs[i].resp.status = 500 /\ reqs[i].timer = "none"

\* C4: with no credential provisioned, no request is authorized, whatever
\* value it presents.
C4_NoDefaultCredential ==
  \A i \in 1..Len(reqs) :
    (Privileged(reqs[i]) /\ reqs[i].configured = Null)
      => reqs[i].op = "none" /\ reqs[i].resp.status # 200

\* the keys a device can be given
Keys == {<<"a">>, <<"b">>}

\* the response the running variant gives to request r when the device's
\* credential is k
ResponseWithKey(r, k) ==
  IF variant = "A" THEN RouteA(r.ep, r.header, r.query, k \o <<"\n">>).resp
                   ELSE RouteB(r.ep, r.header, r.query, k).resp

\* C5: the response to a request that does not carry the credential is the
\* same whatever the value of the credential: an agent that differs only in
\* the credential value answers the request identically.
C5_ResponseIndependentOfCredential ==
  \A i \in 1..Len(reqs) :
    (reqs[i].configured # Null /\ ~Carries(reqs[i], reqs[i].configured)) =>
      \A k \in Keys :
        ~Carries(reqs[i], k) => ResponseWithKey(reqs[i], k) = reqs[i].resp

\* C6: the host action of a request is invoked only in a step that starts
\* from a state in which the request already has its 200 response.
C6_AcknowledgedBeforeHostAction ==
  [][\A i \in 1..Len(reqs') :
       (HostActionInvoked(reqs'[i])
          /\ (i > Len(reqs) \/ ~HostActionInvoked(reqs[i])))
         => (i <= Len(reqs) /\ reqs[i].resp.status = 200)]_vars

\* C6 witness: the host action of an acknowledged request has been invoked.
C6_Witness ==
  \E i \in 1..Len(reqs) :
    HostActionInvoked(reqs[i]) /\ reqs[i].resp.status = 200

\* the request has been acknowledged: 200 and a host action to come
Acknowledged(r) == r.resp.status = 200 /\ r.op # "none"

\* C11: the host action of an acknowledged request is invoked in every
\* execution, a termination signal included.  After the process has exited
\* no step invokes anything, so at that point every acknowledged request
\* must have had its host action invoked.
C11_AcknowledgedActionSurvivesSignal ==
  ~running =>
    \A i \in 1..Len(reqs) : Acknowledged(reqs[i]) => HostActionInvoked(reqs[i])

\* C12: GET /health is answered 200 and its apiKeyConfigured field tells
\* whether a credential is configured at the time of the request.
C12_HealthReportsConfigured ==
  \A i \in 1..Len(reqs) :
    reqs[i].ep = "GET /health" =>
      /\ reqs[i].resp.status = 200
      /\ reqs[i].resp.apiKeyConfigured =
           (IF reqs[i].configured # Null THEN "true" ELSE "false")

\* a privileged request that presents the configured credential in the
\* X-Api-Key header
Valid(r) == Privileged(r) /\ r.configured # Null /\ r.header = r.configured

\* C13: every valid reboot request is answered 200 and has a timer of its
\* own, whatever the other requests and their timers are.
C13_ConcurrentRebootsBothScheduled ==
  \A i \in 1..Len(reqs) :
    Valid(reqs[i]) => reqs[i].resp.status = 200 /\ reqs[i].timer # "none"

\* C13 witness: two valid reboot requests, the second handled while the
\* timer of the first was pending, both acknowledged and both pending.
C13_Witness ==
  /\ Len(reqs) >= 2
  /\ \A i \in 1..2 :
       /\ Valid(reqs[i]) /\ reqs[i].ep = "POST /reboot"
       /\ reqs[i].resp.status = 200 /\ reqs[i].timer = "pending"

\* C16: when the process has exited on a termination signal, every request
\* it had received has been answered.
C16_ReceivedRequestsAnsweredBeforeExit ==
  ~running => inflight = 0

\* C17: a step that answers a request or runs a host command leaves the
\* agent running, and the request answered in it gets 200 when it is a
\* /health request or a valid privileged request, whatever came before.
C17_RequestErrorsDoNotStopAgent ==
  [][reqs' # reqs =>
       /\ running /\ running'
       /\ Len(reqs') > Len(reqs) =>
            LET r == reqs'[Len(reqs')]
            IN  (r.ep = "GET /health" \/ Valid(r)) => r.resp.status = 200]_vars

\* C17 witness: after a rejected request, or after a host command that
\* failed to start, a later valid request was answered 200 by a running
\* agent.
C17_Witness ==
  /\ running
  /\ \E i, j \in 1..Len(reqs) :
       /\ i < j
       /\ reqs[i].resp.status \in {401, 500} \/ reqs[i].timer = "failed"
       /\ Valid(reqs[j]) /\ reqs[j].resp.status = 200

\* the credential the device is configured with now: the key file for
\* variant A, the service's REBOOT_API_KEY for variant B
DeviceCredential ==
  IF variant = "A"
    THEN (IF keyFile # Absent /\ Trim(keyFile) # <<>> THEN Trim(keyFile) ELSE Null)
    ELSE (IF unitEnv # Undefined /\ unitEnv # <<>> THEN unitEnv ELSE Null)

\* C18: a privileged request is judged against the credential the device is
\* configured with when the request is handled: with that credential in the
\* header it is authorized, and with another key (an earlier credential)
\* in the header and that credential nowhere it is not.
C18_JudgedAgainstCurrentCredential ==
  [][Len(reqs') > Len(reqs) =>
       LET r == reqs'[Len(reqs')]
       IN  Privileged(r) =>
             /\ (DeviceCredential # Null /\ r.header = DeviceCredential)
                  => r.resp.status = 200
             /\ (r.header \in Keys /\ ~Carries(r, DeviceCredential))
                  => r.resp.status # 200]_vars

\* the request presents no credential at all
CarriesNothing(r) == ~Truthy(r.header) /\ ~Truthy(r.query)

\* C20: the 401 to a privileged request without a credential is the same
\* response, status and body, as the 401 to one with a wrong credential.
C20_MissingAndWrongAlike ==
  \A i, j \in 1..Len(reqs) :
    (/\ Privileged(reqs[i]) /\ reqs[i].resp.status = 401 /\ CarriesNothing(reqs[i])
     /\ Privileged(reqs[j]) /\ reqs[j].resp.status = 401 /\ ~CarriesNothing(reqs[j]))
      => reqs[i].resp = reqs[j].resp

\* C20 witness: a request without a credential and a request with a wrong
\* one have both been answered 401.
C20_Witness ==
  \E i, j \in 1..Len(reqs) :
    /\ Privileged(reqs[i]) /\ reqs[i].resp.status = 401 /\ CarriesNothing(reqs[i])
    /\ Privileged(reqs[j]) /\ reqs[j].resp.status = 401 /\ Truthy(reqs[j].header)

\* C23: a received request is handled whether or not timers are pending,
\* and a GET /health handled after an acknowledgement whose host action has
\* not fired yet is answered 200.
C23_ServesWhileTimerPending ==
  /\ (running /\ inflight > 0) => ENABLED HandleRequest
  /\ \A i, j \in 1..Len(reqs) :
       (i < j /\ reqs[i].timer = "pending" /\ reqs[j].ep = "GET /health")
         => reqs[j].resp.status = 200

\* C23 witness: a GET /health has been answered 200 after an acknowledged
\* request whose timer is still pending.
C23_Witness ==
  /\ running
  /\ \E i, j \in 1..Len(reqs) :
       /\ i < j
       /\ Acknowledged(reqs[i]) /\ reqs[i].timer = "pending"
       /\ reqs[j].ep = "GET /health" /\ reqs[j].resp.status = 200

\* C26: a privileged request that carries the configured credential in the
\* header or in the query parameter is answered 200, whatever the other
\* carrier holds.
C26_EitherCarrierAuthorizes ==
  \A i \in 1..Len(reqs) :
    (/\ Privileged(reqs[i])
     /\ reqs[i].configured # Null
     /\ Carries(reqs[i], reqs[i].configured))
      => reqs[i].resp.status = 200

\* every handled privileged request is in one terminal state: 200 with its
\* host action scheduled, or 401 or 500 with none
TerminalStatesExclusive ==
  \A i \in 1..Len(reqs) :
    Privileged(reqs[i]) =>
      \/ /\ reqs[i].resp.status = 200
         /\ reqs[i].op # "none" /\ reqs[i].timer # "none"
      \/ /\ reqs[i].resp.status \in {401, 500}
         /\ reqs[i].op = "none" /\ reqs[i].timer = "none"

\* C27: every request the agent has received gets its response (none is
\* left without one when the process has exited), and every privileged
\* request handled is in exactly one terminal state.
C27_OneResponseOneTerminalState ==
  /\ TerminalStatesExclusive
  /\ ~running => inflight = 0

\* the API key file is there and holds only whitespace
Blank(file) == file # Absent /\ Trim(file) = <<>>

\* the response of the running variant to request r if the key file were
\* not there
ResponseWithoutKeyFile(r) ==
  IF variant = "A" THEN RouteA(r.ep, r.header, r.query, Absent).resp
                   ELSE RouteB(r.ep, r.header, r.query, envKey).resp

\* C28: a request handled while the key file is blank gets the response it
\* would get with no key file: apiKeyConfigured false from /health, 500
\* from a privileged endpoint, and no host action whatever it carries.
C28_BlankKeyFileIsAbsent ==
  [][(Len(reqs') > Len(reqs) /\ Blank(keyFile)) =>
       LET r == reqs'[Len(reqs')]
       IN  /\ r.resp = ResponseWithoutKeyFile(r)
           /\ r.op = "none"
           /\ r.ep = "GET /health" => r.resp.apiKeyConfigured = "false"
           /\ Privileged(r) => r.resp.status = 500]_vars

\* C28 witness: with a blank key file, /health has answered
\* apiKeyConfigured false and a privileged request with an empty credential
\* has been answered 500.
C28_Witness ==
  /\ Blank(keyFile)
  /\ \E i \in 1..Len(reqs) :
       reqs[i].ep = "GET /health" /\ reqs[i].resp.apiKeyConfigured = "false"
  /\ \E i \in 1..Len(reqs) :
       /\ Privileged(reqs[i]) /\ reqs[i].header = <<>>
       /\ reqs[i].resp.status = 500 /\ reqs[i].timer = "none"

(***************************************************************************)
(* Properties of the Registration Client, checked under ClientSpec.        *)
(***************************************************************************)
\* the invocation has POSTed its report
Posted(c) == c.posts > 0

\* the registry answered the POST with a 2xx status and a JSON body
Accepted(c) == c.net = "response" /\ ResponseOk(c.http) /\ c.body # "malformed"

\* C7: every report that is sent carries a concrete address, never the
\* placeholder 'unknown' and never the empty string.
C7_ReportHasConcreteAddress ==
  Posted(cl) => cl.ip # Unknown /\ cl.ip # <<>>

\* C8: the credential the client uses for its report is the credential the
\* agent of the same device verifies requests against at that moment.
C8_ClientKeyIsAgentKey ==
  (cl.pc # "idle" /\ cl.agentKey # Null) => cl.apiKey = cl.agentKey

\* C9: an invocation ends with exit status zero exactly when its
\* registration attempt succeeded.
C9_ExitStatusTellsFailure ==
  cl.pc = "done" => (cl.exit = 0 <=> Accepted(cl))

\* C10: an attempt whose call failed at the network level, got a non-2xx
\* status or got a body that is not JSON is logged as failed and never as
\* successful.
C10_BadAnswerIsFailure ==
  (cl.pc = "done" /\ Posted(cl) /\ ~Accepted(cl))
    => "error" \in cl.logs /\ "success" \notin cl.logs

\* C14: no report is sent when the store holds no credential, and every
\* report that is sent carries the credential of the store.
C14_ReportCarriesStoredCredential ==
  Posted(cl) => cl.stored # Null /\ cl.apiKey = cl.stored

\* C15: the POST is never still in flight when the next scheduled
\* invocation starts, one cron interval later.
C15_CallEndsBeforeNextInvocation ==
  cl.pc = "posted" => cl.waited < CronInterval

\* C19: an invocation POSTs at most once, whatever the outcome.
C19_AtMostOnePost ==
  cl.posts <= 1

\* C19 witness: an invocation whose POST failed has ended with one POST.
C19_Witness ==
  cl.pc = "done" /\ cl.posts = 1 /\ ~Accepted(cl) /\ "error" \in cl.logs

\* the invocation reported success: exit status 0 and a success line in
\* its log
ReportedSuccessful(c) ==
  /\ c.pc = "done"
  /\ c.exit = 0
  /\ "success" \in c.logs \/ "completed successfully" \in c.logs

\* C25: an invocation reports success only when the registry answered 2xx
\* with a JSON body whose status is 'new' or 'updated'; in particular an
\* invocation that got a 2xx answer with another status, or with none, does
\* not report success.
C25_OtherStatusIsNotSuccess ==
  (cl.pc = "done" /\ Accepted(cl) /\ cl.body \notin {"new", "updated"})
    => ~ReportedSuccessful(cl)

(***************************************************************************)
(* Properties of the setup scripts, checked under SetupSpec.               *)
(***************************************************************************)
\* C21: an API key file that exists is changed by no step of the
\* subsystem, a re-run of register_pi included: its content changes only
\* when the operator writes it, and it is created, when it is not there,
\* by register_pi generating a key.
C21_ExistingKeyFileUnchanged ==
  [][keyFile' # keyFile =>
       \/ WriteKeyFile
       \/ keyFile = Absent /\ keyLog' = "generated"]_vars

\* C21 witness: a second setup run has gone through register_pi, which
\* found the key file and registered with its key.
C21_Witness ==
  /\ setups >= 2
  /\ keyLog = "existing"
  /\ attempt # Null /\ attempt = Trim(keyFile)

\* the number of lines of the crontab that are the line l
Count(l) == Len(SelectSeq(crontab, LAMBDA line : line = l))

\* C22: when a setup script has run to completion, the API key file holds
\* a key, a registration has been attempted with that key and the crontab
\* holds the periodic registration job.
C22_SetupLeavesKeyRegistrationAndJob ==
  status = "done" =>
    /\ keyFile # Absent /\ Truthy(Trim(keyFile))
    /\ attempt = Trim(keyFile)
    /\ Count(PeriodicLine) >= 1

\* C29: a setup script never aborts on a step that main calls and the
\* script does not define.
C29_MainCallsOnlyDefinedSteps ==
  status # "aborted: command not found"

\* C30: after a completed setup run, the first or a later one, the crontab
\* holds the periodic registration job once and the daily reboot job at
\* most once.
C30_CronInstallIdempotent ==
  status = "done" => Count(PeriodicLine) = 1 /\ Count(RebootLine) <= 1

(***************************************************************************)
(* Properties of the registry's record, checked under CronSpec.            *)
(***************************************************************************)
\* C24: the address in the registry's record changes only to the address
\* of a later run than the one whose report the record holds, never to one
\* built from older device state.
C24_RecordNeverGoesBack ==
  [][registry'.ip # registry.ip => registry'.n > registry.n]_vars
====
